---- MODULE Spec2Model ----
\* Account registration / email verification service of palm_island.
\* Two server variants exist in the repository:
\*   policy "A"  bid_backend/server-clean.js  (login gated on verification)
\*   policy "B"  the auto-verifying server     (accounts verified at creation,
\*                                              welcome e-mail notifier)
\* Every request handler is an async function; between two awaits it runs
\* atomically, and the store (MongoDB through Mongoose) applies each
\* operation atomically.  One action of the model is one store operation
\* together with the synchronous code that follows it up to the next await.
EXTENDS Integers, Sequences, FiniteSets, Bags, TLC

\* ---------------------------------------------------------------- bounds
\* requests received by the server
MaxReqs == 3
\* the last instant of the clock
MaxTime == 1

\* 24 * 60 * 60 * 1000 ms, in clock units of 24 hours
VerificationTTL == 1

\* ------------------------------------------------------------ input sets
Emails == {"jane@x.com", "joe@x.com"}
Passwords == {"secret123", "wrong"}
Salts == {"salt"}
Absent == ""
Null == 0
\* token values a client may present: every request issues at most one token
Tokens == 1..(MaxReqs - 1)

VARIABLES policy, users, reqs, now, nextToken

vars == <<policy, users, reqs, now, nextToken>>

\* ------------------------------------------------------------- bcryptjs
BcryptHash(plain, salt) == [salt |-> salt, digest |-> <<salt, plain>>]

BcryptCompare(plain, hash) == hash.digest = <<hash.salt, plain>>

\* ---------------------------------------------------------------- store
NoUser ==
    [id |-> 0, email |-> Absent, password |-> BcryptHash(Absent, Absent),
     isEmailVerified |-> FALSE,
     emailVerificationToken |-> Null, emailVerificationExpires |-> Null]

\* findOne: the first document (in insertion order) among those at the
\* positions S, or null
First(us, S) == IF S = {} THEN NoUser
                ELSE us[CHOOSE i \in S : \A j \in S : i <= j]

\* User.findOne({ email })
FindOneByEmail(us, email) ==
    First(us, {i \in DOMAIN us : us[i].email = email})

\* a lookup by token that forgets the expiry condition
FindOneByTokenIgnoringExpiry(us, token, date) ==
    First(us, {i \in DOMAIN us : us[i].emailVerificationToken = token})

\* User.findOne({ emailVerificationToken: token,
\*                emailVerificationExpires: { $gt: new Date() } })
FindOneByValidToken(us, token, date) ==
    First(us, {i \in DOMAIN us :
                  /\ us[i].emailVerificationToken = token
                  /\ us[i].emailVerificationExpires # Null
                  /\ us[i].emailVerificationExpires > date})

\* a collection without the unique index
UniqueIndexAllowsAny(us, email) == TRUE

\* the unique index on email: an insert is refused when the key exists
UniqueIndexAllows(us, email) == \A i \in DOMAIN us : us[i].email # email

\* User.create(doc): the inserted document gets the next _id
Insert(us, doc) == Append(us, [doc EXCEPT !.id = Len(us) + 1])

\* a save that never reaches the store
SaveLost(us, user, delta) == us

\* a save that writes the loaded document back, stale fields included
SaveWholeDocument(us, user, delta) ==
    [us EXCEPT ![user.id] =
        [f \in DOMAIN user |-> IF f \in DOMAIN delta THEN delta[f] ELSE user[f]]]

\* user.save() of a loaded document: Mongoose sends the modified paths only
\* ($set of delta on the document's _id); the other stored fields stay.
\* Every path a handler assigns counts as modified: a token is a fresh value,
\* and two Date.now() readings separated by a store round trip are different
\* instants even when they fall into the same unit of the model's clock.
Save(us, user, delta) ==
    [us EXCEPT ![user.id] =
        [f \in DOMAIN @ |-> IF f \in DOMAIN delta THEN delta[f] ELSE @[f]]]

\* ------------------------------------------------------------- requests
Body(fullname, email, password, role, token) ==
    [fullname |-> fullname, email |-> email, password |-> password,
     role |-> role, token |-> token]

RegisterBodies ==
    {Body("Jane Doe", e, "secret123", "player", Null) : e \in Emails}
    \cup {Body("Jane Doe", Absent, "secret123", "player", Null),
          Body("Jane Doe", "jane@x.com", "secret123", Absent, Null)}

VerifyQueries == {Body(Absent, Absent, Absent, Absent, t) : t \in Tokens \cup {Null}}

ResendBodies == {Body(Absent, e, Absent, Absent, Null) : e \in Emails \cup {Absent}}

LoginBodies ==
    {Body(Absent, e, p, Absent, Null) : e \in Emails, p \in Passwords}
    \cup {Body(Absent, "jane@x.com", Absent, Absent, Null)}

Response(status, message) == [status |-> status, message |-> message]

Pending == Response(0, "")

\* a handler invocation: its request, its position (pc), its locals `user`
\* (uid keeps the _id of the document it found), verificationToken and
\* verificationExpires, the notifier's outcome and the response sent
NewReq(kind, body) ==
    [kind |-> kind, body |-> body, pc |-> "done", user |-> NoUser, uid |-> 0,
     verificationToken |-> Null, verificationExpires |-> Null,
     notifier |-> "none", res |-> Pending]

Reply(r, status, message) ==
    [r EXCEPT !.pc = "done", !.user = NoUser, !.verificationExpires = Null,
              !.res = Response(status, message)]

\* the fields of the JSON body of an answered request: the gated server adds
\* verificationToken to the success bodies of /register and
\* /resend-verification ("For testing purposes")
ResponseFields(r) ==
    IF r.kind = "register" /\ r.res.status = 201
    THEN {"message", "userId"}
         \cup (IF policy = "A" THEN {"verificationToken"} ELSE {})
    ELSE IF r.kind = "resend" /\ r.res.status = 200
    THEN {"message"} \cup (IF policy = "A" THEN {"verificationToken"} ELSE {})
    ELSE IF r.kind = "verify" /\ r.res.status = 200
    THEN {"message", "isVerified"}
    ELSE IF r.kind = "login" /\ r.res.status = 200
    THEN {"message", "user"}
    ELSE IF r.kind = "login" /\ r.res.message = "Please verify your email before logging in"
    THEN {"message", "emailVerified"}
    ELSE {"message"}

\* the value of the body's verificationToken field, null when it has none
ResponseToken(r) ==
    IF "verificationToken" \in ResponseFields(r) THEN r.verificationToken ELSE Null

\* catch (error) { res.status(500).json({ message: error.message }) }
InternalError(r, message) == Reply(r, 500, message)

\* reqs is the bag of handler invocations, in flight and answered
Requests == BagToSet(reqs)

Arrive(r) == reqs' = reqs (+) SetToBag({r})

Resume(r, next) == reqs' = (reqs (-) SetToBag({r})) (+) SetToBag({next})

Await(r, pc, user) == [r EXCEPT !.pc = pc, !.user = user, !.uid = user.id]

\* a token generator that repeats itself
RepeatedToken == CHOOSE t \in Tokens : \A u \in Tokens : t <= u

\* crypto.randomBytes(32).toString('hex'): a value never produced before
FreshToken == nextToken

\* new Date(Date.now() + 24 * 60 * 60 * 1000)
ExpiryFrom(date) == date + VerificationTTL

\* a registration that never verifies
UnverifiedAtCreation == FALSE

\* isEmailVerified of the document passed to User.create
VerifiedAtCreation == policy = "B"

\* ------------------------------------------------------------ /register
RegisterFieldsMissing(b) ==
    b.fullname = Absent \/ b.email = Absent \/ b.password = Absent \/ b.role = Absent

NewUser(b, salt, token, expires) ==
    [id |-> 0, email |-> b.email, password |-> BcryptHash(b.password, salt),
     isEmailVerified |-> VerifiedAtCreation,
     emailVerificationToken |-> token, emailVerificationExpires |-> expires]

\* validation, User.findOne({ email }), bcrypt.hash and the token generation;
\* the handler then awaits User.create
Register(b) ==
    LET r == NewReq("register", b) IN
    /\ BagCardinality(reqs) < MaxReqs
    /\ IF RegisterFieldsMissing(b)
       THEN /\ Arrive(Reply(r, 400, "All fields are required"))
            /\ UNCHANGED nextToken
       ELSE IF FindOneByEmail(users, b.email) # NoUser
       THEN /\ Arrive(Reply(r, 400, "Email already exists"))
            /\ UNCHANGED nextToken
       ELSE /\ \E salt \in Salts :
                 Arrive([r EXCEPT !.pc = "create",
                               !.verificationToken = FreshToken,
                               !.verificationExpires = ExpiryFrom(now),
                               !.user = NewUser(b, salt, FreshToken, ExpiryFrom(now))])
            /\ nextToken' = nextToken + 1
    /\ UNCHANGED <<policy, users, now>>

\* User.create resolves or rejects (duplicate key); policy A answers at once,
\* policy B goes on to await sendWelcomeEmail
RegisterCreate(r) ==
    /\ r.kind = "register" /\ r.pc = "create"
    /\ IF UniqueIndexAllows(users, r.user.email)
       THEN /\ users' = Insert(users, r.user)
            /\ Resume(r, IF policy = "A"
                         THEN [Reply(r, 201, "Registration successful") EXCEPT
                                  !.uid = Len(users) + 1]
                         ELSE [r EXCEPT !.pc = "notify", !.user = NoUser,
                                        !.uid = Len(users) + 1])
       ELSE /\ Resume(r, InternalError(r, "E11000 duplicate key error"))
            /\ UNCHANGED users
    /\ UNCHANGED <<policy, now, nextToken>>

\* -------------------------------------------------------- /verify-email
\* a verification that clears one of the two token fields only
VerifyModifiedKeepsExpiry ==
    [isEmailVerified |-> TRUE, emailVerificationToken |-> Null]

VerifyModifiedKeepsToken ==
    [isEmailVerified |-> TRUE, emailVerificationExpires |-> Null]

\* user.isEmailVerified = true; user.emailVerificationToken = null;
\* user.emailVerificationExpires = null

VerifyModified ==
    [isEmailVerified |-> TRUE, emailVerificationToken |-> Null,
     emailVerificationExpires |-> Null]

\* the token check and the lookup by unexpired token
VerifyEmail(q) ==
    LET r == NewReq("verify", q)
        user == FindOneByValidToken(users, q.token, now) IN
    /\ BagCardinality(reqs) < MaxReqs
    /\ Arrive(IF q.token = Null
         THEN Reply(r, 400, "Verification token is required")
         ELSE IF user = NoUser
         THEN Reply(r, 400, "Invalid or expired verification token")
         ELSE Await(r, "save", user))
    /\ UNCHANGED <<policy, users, now, nextToken>>

\* user.save(); policy A answers at once, policy B awaits sendWelcomeEmail
VerifySave(r) ==
    /\ r.kind = "verify" /\ r.pc = "save"
    /\ users' = Save(users, r.user, VerifyModified)
    /\ Resume(r, IF policy = "A"
                 THEN Reply(r, 200, "Email verified successfully")
                 ELSE [r EXCEPT !.pc = "notify", !.user = NoUser])
    /\ UNCHANGED <<policy, now, nextToken>>

\* -------------------------------------------------- /resend-verification
\* user.emailVerificationToken = verificationToken;
\* user.emailVerificationExpires = verificationExpires
ResendModified(token, expires) ==
    [emailVerificationToken |-> token, emailVerificationExpires |-> expires]

\* a check that never fires, and one that always does
AlreadyVerifiedNever(user) == FALSE

AlreadyVerifiedAlways(user) == TRUE

\* if (user.isEmailVerified) return 400 "Email is already verified"
AlreadyVerified(user) == user.isEmailVerified

\* policy A: lookup, the already-verified check, a new token, then user.save();
\* policy B: lookup, then sendWelcomeEmail
ResendVerification(b) ==
    LET r == NewReq("resend", b)
        user == FindOneByEmail(users, b.email) IN
    /\ BagCardinality(reqs) < MaxReqs
    /\ IF b.email = Absent
       THEN /\ Arrive(Reply(r, 400, "Email is required"))
            /\ UNCHANGED nextToken
       ELSE IF user = NoUser
       THEN /\ Arrive(Reply(r, 404, "User not found"))
            /\ UNCHANGED nextToken
       ELSE IF policy = "B"
       THEN /\ Arrive([r EXCEPT !.pc = "notify", !.uid = user.id])
            /\ UNCHANGED nextToken
       ELSE IF AlreadyVerified(user)
       THEN /\ Arrive([Reply(r, 400, "Email is already verified")
                           EXCEPT !.uid = user.id])
            /\ UNCHANGED nextToken
       ELSE /\ Arrive([Await(r, "save", user) EXCEPT
                     !.verificationToken = FreshToken,
                     !.verificationExpires = ExpiryFrom(now)])
            /\ nextToken' = nextToken + 1
    /\ UNCHANGED <<policy, users, now>>

ResendSave(r) ==
    /\ r.kind = "resend" /\ r.pc = "save"
    /\ users' = Save(users, r.user,
                     ResendModified(r.verificationToken, r.verificationExpires))
    /\ Resume(r, Reply(r, 200, "Verification email sent successfully"))
    /\ UNCHANGED <<policy, now, nextToken>>

\* --------------------------------------------------------------- /login
\* a login handler without the verification check
LoginUngated == FALSE

\* if (!user.isEmailVerified) return 401: present in the gated server only
LoginGated == policy = "A"

LoginReply(r, user) ==
    IF r.body.email = Absent \/ r.body.password = Absent
    THEN Reply(r, 400, "Email and password are required")
    ELSE IF user = NoUser
    THEN Reply(r, 401, "Invalid email or password")
    ELSE IF LoginGated /\ ~user.isEmailVerified
    THEN Reply(r, 401, "Please verify your email before logging in")
    ELSE IF ~BcryptCompare(r.body.password, user.password)
    THEN Reply(r, 401, "Invalid email or password")
    ELSE Reply(r, 200, "Login successful")

\* the handler reads the store once (User.findOne); bcrypt.compare touches no
\* shared state, so the response is decided by that read
Login(b) ==
    LET r == NewReq("login", b)
        user == FindOneByEmail(users, b.email) IN
    /\ BagCardinality(reqs) < MaxReqs
    /\ Arrive([LoginReply(r, user) EXCEPT !.uid = user.id])
    /\ UNCHANGED <<policy, users, now, nextToken>>

\* ------------------------------------------------------ sendWelcomeEmail
\* resolves {success: true}, resolves {success: false, error}, or rejects
NotifierOutcomes == {"sent", "failed", "threw"}

RegisterNotifyReply(r, outcome) ==
    IF outcome = "threw" THEN InternalError(r, "notifier error")
    ELSE Reply(r, 201, "Registration successful")

VerifyNotifyReply(r, outcome) ==
    IF outcome = "threw" THEN InternalError(r, "notifier error")
    ELSE Reply(r, 200, "Email verified successfully")

ResendNotifyReply(r, outcome) ==
    IF outcome = "threw" THEN InternalError(r, "notifier error")
    ELSE IF outcome = "sent" THEN Reply(r, 200, "Welcome email sent successfully")
    ELSE Reply(r, 500, "Failed to send welcome email")

NotifyReply(r, outcome) ==
    [(CASE r.kind = "register" -> RegisterNotifyReply(r, outcome)
        [] r.kind = "verify" -> VerifyNotifyReply(r, outcome)
        [] OTHER -> ResendNotifyReply(r, outcome))
     EXCEPT !.notifier = outcome]

RegisterNotify(r, outcome) ==
    /\ r.kind = "register" /\ r.pc = "notify"
    /\ Resume(r, NotifyReply(r, outcome))
    /\ UNCHANGED <<policy, users, now, nextToken>>

VerifyNotify(r, outcome) ==
    /\ r.kind = "verify" /\ r.pc = "notify"
    /\ Resume(r, NotifyReply(r, outcome))
    /\ UNCHANGED <<policy, users, now, nextToken>>

ResendNotify(r, outcome) ==
    /\ r.kind = "resend" /\ r.pc = "notify"
    /\ Resume(r, NotifyReply(r, outcome))
    /\ UNCHANGED <<policy, users, now, nextToken>>

\* ---------------------------------------------------------------- clock
Tick ==
    /\ now < MaxTime
    /\ now' = now + 1
    /\ UNCHANGED <<policy, users, reqs, nextToken>>

\* ----------------------------------------------------------------- spec
Init ==
    /\ policy \in {"A", "B"}
    /\ users = <<>>
    /\ reqs = EmptyBag
    /\ now = 0
    /\ nextToken = 1

Next ==
    \/ \E b \in RegisterBodies : Register(b)
    \/ \E r \in Requests : RegisterCreate(r)
    \/ \E q \in VerifyQueries : VerifyEmail(q)
    \/ \E r \in Requests : VerifySave(r)
    \/ \E b \in ResendBodies : ResendVerification(b)
    \/ \E r \in Requests : ResendSave(r)
    \/ \E b \in LoginBodies : Login(b)
    \/ \E r \in Requests, o \in NotifierOutcomes : RegisterNotify(r, o)
    \/ \E r \in Requests, o \in NotifierOutcomes : VerifyNotify(r, o)
    \/ \E r \in Requests, o \in NotifierOutcomes : ResendNotify(r, o)
    \/ Tick

Spec == Init /\ [][Next]_vars

\* the gated server alone (bid_backend/server-clean.js): it calls no notifier
InitA == Init /\ policy = "A"

NextA ==
    \/ \E b \in RegisterBodies : Register(b)
    \/ \E r \in Requests : RegisterCreate(r)
    \/ \E q \in VerifyQueries : VerifyEmail(q)
    \/ \E r \in Requests : VerifySave(r)
    \/ \E b \in ResendBodies : ResendVerification(b)
    \/ \E r \in Requests : ResendSave(r)
    \/ \E b \in LoginBodies : Login(b)
    \/ Tick

SpecA == InitA /\ [][NextA]_vars

\* the gated server started on a store that already holds one account, left
\* by an earlier /register and not verified yet
InitARegistered ==
    /\ policy = "A"
    /\ users = Insert(<<>>, NewUser(Body("Jane Doe", "jane@x.com", "secret123", "player", Null),
                                    "salt", 1, ExpiryFrom(0)))
    /\ reqs = EmptyBag
    /\ now = 0
    /\ nextToken = 2

SpecARegistered == InitARegistered /\ [][NextA]_vars

\* the auto-verifying server alone: its resend handler never saves
InitB == Init /\ policy = "B"

NextB ==
    \/ \E b \in RegisterBodies : Register(b)
    \/ \E r \in Requests : RegisterCreate(r)
    \/ \E q \in VerifyQueries : VerifyEmail(q)
    \/ \E r \in Requests : VerifySave(r)
    \/ \E b \in ResendBodies : ResendVerification(b)
    \/ \E b \in LoginBodies : Login(b)
    \/ \E r \in Requests, o \in NotifierOutcomes : RegisterNotify(r, o)
    \/ \E r \in Requests, o \in NotifierOutcomes : VerifyNotify(r, o)
    \/ \E r \in Requests, o \in NotifierOutcomes : ResendNotify(r, o)
    \/ Tick

SpecB == InitB /\ [][NextB]_vars

\* =============================================================== claims
\* number of handler invocations (with multiplicity) that satisfy P
CountWhere(P(_)) ==
    BagCardinality([r \in {x \in Requests : P(x)} |-> CopiesIn(r, reqs)])

Answered(r) == r.pc = "done"

DuplicateEmail == Response(400, "Email already exists")

InvalidCredentials == Response(401, "Invalid email or password")

EmailNotVerified == Response(401, "Please verify your email before logging in")

InvalidOrExpiredToken == Response(400, "Invalid or expired verification token")

CompleteRegister(r, e) ==
    r.kind = "register" /\ ~RegisterFieldsMissing(r.body) /\ r.body.email = e

\* ---------------------------------------------------------------- C1
\* C1: in every reachable state, under any interleaving of register requests
\* (two requests for one email may both pass the existence check before either
\* creates), at most one account exists per email.
C1_EmailUnique ==
    \A i, j \in DOMAIN users : users[i].email = users[j].email => i = j

\* two registrations of one email both passed the existence check; the store
\* refused the second insert
C1_Witness ==
    \E r \in Requests :
        /\ r.kind = "register"
        /\ r.res = Response(500, "E11000 duplicate key error")
        /\ \E i \in DOMAIN users : users[i].email = r.body.email

\* ---------------------------------------------------------------- C2
\* C2: whenever two register requests with all four fields present target the
\* same email, sequentially or concurrently, exactly one gets the 201 success
\* and every other one gets 400 "Email already exists", never another outcome.
C2_OneSuccessOthersDuplicate ==
    \A e \in Emails :
        LET For(r) == CompleteRegister(r, e)
            Created(r) == For(r) /\ r.res.status = 201
            Open(r) == For(r) /\ ~Answered(r)
        IN (CountWhere(For) >= 2 /\ CountWhere(Open) = 0) =>
              /\ CountWhere(Created) = 1
              /\ \A r \in Requests :
                    For(r) => r.res.status = 201 \/ r.res = DuplicateEmail

\* ---------------------------------------------------------------- C3
C3_CorrectPassword(r) ==
    \E g \in Requests :
        /\ g.kind = "register" /\ g.res.status = 201
        /\ g.body.email = r.body.email /\ g.body.password = r.body.password

C3_VerifySucceeded(e) ==
    \E v \in Requests :
        /\ v.kind = "verify" /\ v.res.status = 200
        /\ users[v.uid].email = e

\* C3: under the gated policy, a login with the correct password gets 401
\* "Please verify your email" (never 200) while no verifyEmail has succeeded on
\* the account, and gets 200 once a verifyEmail has succeeded on it.
C3_LoginGatedUntilVerified ==
    [][\A r \in BagToSet(reqs') :
          (Arrive(r) /\ r.kind = "login" /\ C3_CorrectPassword(r)) =>
              IF C3_VerifySucceeded(r.body.email)
              THEN r.res.status = 200
              ELSE r.res = EmailNotVerified]_vars

\* a login answered 200 on an account that a verifyEmail had verified
C3_Witness ==
    \E r \in Requests :
        /\ r.kind = "login" /\ r.res.status = 200
        /\ C3_VerifySucceeded(r.body.email)

\* ---------------------------------------------------------------- C4
C4_StoredUnexpired(t) ==
    \E i \in DOMAIN users :
        /\ users[i].emailVerificationToken = t
        /\ users[i].emailVerificationExpires > now

\* C4: verifyEmail accepts an issued token only while the current time is
\* strictly before its expiry, and no issued token is accepted (answered 200)
\* by more than one verifyEmail request.
C4_AcceptedOnceBeforeExpiry ==
    [][/\ \A r \in BagToSet(reqs') :
            (Arrive(r) /\ r.kind = "verify" /\ r.uid # 0) =>
                C4_StoredUnexpired(r.body.token)
       /\ \A t \in Tokens :
            LET Accepted(r) ==
                    r.kind = "verify" /\ r.body.token = t /\ r.res.status = 200
            IN BagCardinality([r \in {x \in BagToSet(reqs') : Accepted(x)} |->
                                  CopiesIn(r, reqs')]) <= 1]_vars

\* ---------------------------------------------------------------- C5
C5_KnownPassword(r) ==
    \E g \in Requests :
        /\ g.kind = "register" /\ g.uid # 0
        /\ g.body.email = r.body.email /\ g.body.password = r.body.password

\* C5: a login with a wrong password for an existing account gets the same
\* status and message as a login for an email that has no account
\* (401 "Invalid email or password"), whatever the account's verification
\* state.
C5_UniformInvalidCredentials ==
    \A r \in Requests :
        (/\ r.kind = "login" /\ Answered(r)
         /\ r.body.email # Absent /\ r.body.password # Absent
         /\ ~C5_KnownPassword(r)) => r.res = InvalidCredentials

\* ---------------------------------------------------------------- C6
\* C6: verifyEmail with a token that no account stores unexpired (unknown,
\* consumed, replaced or expired) is answered 400 "Invalid or expired
\* verification token" and leaves every account unchanged.
C6_RejectedVerifyChangesNothing ==
    [][\A r \in BagToSet(reqs') :
          (/\ Arrive(r) /\ r.kind = "verify" /\ r.body.token # Null
           /\ ~C4_StoredUnexpired(r.body.token)) =>
              /\ Answered(r) /\ r.res = InvalidOrExpiredToken
              /\ users' = users]_vars

\* an issued token, still stored but past its expiry, was rejected
C6_Witness ==
    \E r \in Requests :
        /\ r.kind = "verify" /\ r.res = InvalidOrExpiredToken
        /\ \E g \in Requests :
              /\ g.kind = "register" /\ g.uid # 0
              /\ g.verificationToken = r.body.token
              /\ users[g.uid].emailVerificationToken = r.body.token
              /\ users[g.uid].emailVerificationExpires <= now

\* ---------------------------------------------------------------- C7
\* C7: for register, verifyEmail and resendVerification, a notifier that
\* reports failure never changes the response: the request is answered with
\* its success status (201, 200, 200) all the same.
C7_NotifierFailureNeverEscalates ==
    \A r \in Requests :
        (Answered(r) /\ r.notifier = "failed") =>
            r.res.status = (IF r.kind = "register" THEN 201 ELSE 200)

\* ---------------------------------------------------------------- C8
\* C8: Verified is terminal: once an account's isEmailVerified is true it is
\* true in every later state, under any interleaving of the four handlers.
C8_VerifiedIsTerminal ==
    [][\A i \in DOMAIN users :
          users[i].isEmailVerified => users'[i].isEmailVerified]_vars

\* a resend that had read the account before it was verified saved after the
\* verification: the account is verified and holds the resent token
C8_Witness ==
    /\ policy = "A"
    /\ \E r \in Requests :
          /\ r.kind = "resend" /\ r.res.status = 200
          /\ users[r.uid].isEmailVerified
          /\ users[r.uid].emailVerificationToken = r.verificationToken

\* ---------------------------------------------------------------- C9
\* C9: in every reachable state each account's verification token and
\* verification expiry are both set or both null.
C9_TokenAndExpiryTogether ==
    \A i \in DOMAIN users :
        (users[i].emailVerificationToken = Null)
            <=> (users[i].emailVerificationExpires = Null)

\* an account whose token was reissued by a resend and then consumed by a
\* verifyEmail: both fields are null again
C9_Witness ==
    \E r, v \in Requests :
        /\ r.kind = "resend" /\ r.res.status = 200
        /\ v.kind = "verify" /\ v.res.status = 200
        /\ v.body.token = r.verificationToken
        /\ users[v.uid].emailVerificationToken = Null
        /\ users[v.uid].emailVerificationExpires = Null

\* --------------------------------------------------------------- C10
\* a verifyEmail that found the account by token t and has saved
C10_Consumed(t) ==
    \E v \in Requests :
        /\ v.kind = "verify" /\ v.body.token = t
        /\ v.uid # 0 /\ v.pc # "save"

\* C10 as stated: no account stores a token that verifyEmail has already
\* accepted, and no account stores a token whose expiry time has passed.
C10_NoConsumedNoExpiredToken ==
    \A i \in DOMAIN users :
        users[i].emailVerificationToken # Null =>
            /\ ~C10_Consumed(users[i].emailVerificationToken)
            /\ users[i].emailVerificationExpires > now

\* C10 amended: no account stores a token that a verifyEmail has accepted and
\* saved; a token whose expiry has passed stays stored until it is replaced.
C10_ConsumedTokenCleared ==
    \A i \in DOMAIN users :
        users[i].emailVerificationToken # Null =>
            ~C10_Consumed(users[i].emailVerificationToken)

\* a token was consumed, and the account that held it stores no token
C10_Witness ==
    \E v \in Requests :
        /\ v.kind = "verify" /\ v.res.status = 200
        /\ C10_Consumed(v.body.token)
        /\ users[v.uid].emailVerificationToken = Null

\* --------------------------------------------------------------- C11
\* the step in which the resend r saves and is answered 200
C11_ResendSaved(r) ==
    /\ r.kind = "resend" /\ r.pc = "save"
    /\ Resume(r, Reply(r, 200, "Verification email sent successfully"))

\* C11: under policy A a successful resendVerification stores a token that
\* differs from every token issued or stored before, so that afterwards
\* verifyEmail finds the account by no other token than the newest one.
C11_ResendStoresBrandNewToken ==
    [][\A r \in Requests :
          C11_ResendSaved(r) =>
              /\ users'[r.uid].emailVerificationToken = r.verificationToken
              /\ \A g \in Requests :
                    g # r => g.verificationToken # r.verificationToken
              /\ \A i \in DOMAIN users :
                    users[i].emailVerificationToken # r.verificationToken
              /\ \A t \in 1..(nextToken - 1) :
                    t # r.verificationToken =>
                        FindOneByValidToken(users', t, now).id # r.uid]_vars

\* a resend replaced the token issued at registration, the account is still
\* unverified, and a verifyEmail with the registration's token was rejected
C11_Witness ==
    \E r, g, v \in Requests :
        /\ r.kind = "resend" /\ r.res.status = 200
        /\ g.kind = "register" /\ g.uid = r.uid
        /\ v.kind = "verify" /\ v.body.token = g.verificationToken
        /\ v.res = InvalidOrExpiredToken
        /\ ~users[r.uid].isEmailVerified
        /\ users[r.uid].emailVerificationToken = r.verificationToken

\* --------------------------------------------------------------- C12
AlreadyVerifiedResponse == Response(400, "Email is already verified")

\* C12: under policy A a resendVerification that finds its account already
\* verified is answered 400 "Email is already verified", issues no token and
\* leaves every account unchanged.
C12_ResendOnVerifiedRejected ==
    [][\A r \in BagToSet(reqs') :
          (/\ Arrive(r) /\ r.kind = "resend" /\ r.body.email # Absent
           /\ FindOneByEmail(users, r.body.email).isEmailVerified) =>
              /\ Answered(r) /\ r.res = AlreadyVerifiedResponse
              /\ r.verificationToken = Null
              /\ nextToken' = nextToken
              /\ users' = users]_vars

\* a resend was rejected on an account that a verifyEmail had verified
C12_Witness ==
    \E r, v \in Requests :
        /\ r.kind = "resend" /\ r.res = AlreadyVerifiedResponse
        /\ v.kind = "verify" /\ v.res.status = 200 /\ v.uid = r.uid
        /\ users[r.uid].isEmailVerified

\* --------------------------------------------------------------- C13
\* a step taken by a verifyEmail or a resendVerification handler
C13_StepOf(kind) ==
    \E r \in BagToSet(reqs') :
        /\ r.kind = kind
        /\ \/ Arrive(r)
           \/ \E r0 \in Requests : r0.kind = kind /\ Resume(r0, r)

C13_AllVerified(us) == \A i \in DOMAIN us : us[i].isEmailVerified

\* C13 as stated: under policy B every account is verified from the moment
\* it is created, and no step of verifyEmail or resendVerification changes
\* any field of any account.
C13_VerifyAndResendAreNoOps ==
    [][/\ C13_AllVerified(users')
       /\ (C13_StepOf("verify") \/ C13_StepOf("resend")) => users' = users]_vars

C13_TokenFieldsCleared(u) ==
    [u EXCEPT !.emailVerificationToken = Null,
              !.emailVerificationExpires = Null]

\* C13 amended: under policy B every account is verified from the moment it
\* is created and stays so; resendVerification changes no field of any
\* account; verifyEmail changes nothing but the token and expiry of the
\* account that stores the presented token unexpired, which it clears.
C13_ResendNoOpVerifyClearsToken ==
    [][/\ C13_AllVerified(users')
       /\ C13_StepOf("resend") => users' = users
       /\ C13_StepOf("verify") =>
             /\ DOMAIN users' = DOMAIN users
             /\ \A i \in DOMAIN users :
                   \/ users'[i] = users[i]
                   \/ users'[i] = C13_TokenFieldsCleared(users[i])]_vars

\* under policy B a verifyEmail consumed the token stored at registration
\* and a resend was answered on the same account
C13_Witness ==
    /\ policy = "B"
    /\ \E v, r \in Requests :
          /\ v.kind = "verify" /\ v.res.status = 200
          /\ r.kind = "resend" /\ r.res.status = 200 /\ r.uid = v.uid
          /\ users[v.uid].isEmailVerified
          /\ users[v.uid].emailVerificationToken = Null

\* --------------------------------------------------------------- C14
\* C14: under policy A, whatever the interleaving of verifyEmail and
\* resendVerification on one account, every account is either verified with
\* token and expiry cleared or not verified; no reachable state has an
\* account that is verified and holds a token that verifyEmail would accept.
C14_NoVerifiedAccountWithLiveToken ==
    \A i \in DOMAIN users :
        users[i].isEmailVerified =>
            /\ users[i].emailVerificationToken = Null
            /\ users[i].emailVerificationExpires = Null
            /\ FindOneByValidToken(users, users[i].emailVerificationToken, now).id # i

\* --------------------------------------------------------------- C15
C15_Success(r) ==
    \/ r.kind = "register" /\ r.res.status = 201
    \/ r.kind \in {"verify", "resend"} /\ r.res.status = 200

\* the store holds the write of request r0 after this step: the account it
\* created, the verification it saved, or the token it saved
C15_WriteCommitted(r0) ==
    \/ /\ r0.kind = "register" /\ r0.pc = "create"
       /\ Len(users') = Len(users) + 1
       /\ users'[Len(users')].email = r0.body.email
       /\ users'[Len(users')].emailVerificationToken = r0.verificationToken
    \/ /\ r0.kind = "verify" /\ r0.pc = "save"
       /\ users'[r0.uid].isEmailVerified
       /\ users'[r0.uid].emailVerificationToken = Null
       /\ users'[r0.uid].emailVerificationExpires = Null
    \/ /\ r0.kind = "resend" /\ r0.pc = "save"
       /\ users'[r0.uid].emailVerificationToken = r0.verificationToken
       /\ users'[r0.uid].emailVerificationExpires = r0.verificationExpires

\* C15: register, verifyEmail and resendVerification send a success response
\* only after the store write of that request has completed: never on
\* arrival, and otherwise in the step that commits the write or, when the
\* notifier is awaited in between, after that step, whatever the notifier's
\* outcome.  (The resend of the auto-verifying server writes nothing.)
C15_SuccessOnlyAfterWrite ==
    [][/\ \A r \in BagToSet(reqs') :
            (/\ C15_Success(r)
             /\ ~(r.kind = "resend" /\ policy = "B")) => ~Arrive(r)
       /\ \A r0 \in Requests :
            (r0.pc # "done" /\ ~(r0.kind = "resend" /\ policy = "B")) =>
                \A r \in BagToSet(reqs') :
                    (/\ r # r0
                     /\ C15_Success(r) \/ r.pc = "notify"
                     /\ Resume(r0, r)) =>
                        IF r0.pc = "notify"
                        THEN /\ r0.uid # 0
                             /\ r0.kind = "register" =>
                                    users[r0.uid].email = r0.body.email
                             /\ r0.kind = "verify" => users[r0.uid].isEmailVerified
                        ELSE C15_WriteCommitted(r0)]_vars

\* a registration answered 201 although the notifier reported failure; its
\* account is in the store
C15_Witness ==
    \E r \in Requests :
        /\ r.kind = "register" /\ r.res.status = 201 /\ r.notifier = "failed"
        /\ users[r.uid].email = r.body.email

\* --------------------------------------------------------------- C16
\* C16: the success responses of register and resendVerification never
\* contain the verification token (register returns message and userId,
\* resend message only), so no response discloses a token.
C16_ResponsesCarryNoToken ==
    \A r \in Requests :
        (Answered(r) /\ r.kind \in {"register", "resend"} /\ C15_Success(r)) =>
            /\ "verificationToken" \notin ResponseFields(r)
            /\ ResponseToken(r) = Null

\* --------------------------------------------------------------- C17
\* C17: whenever a register request ends with a response other than 201, no
\* account for that request has been added to the store.
C17_RegisterAllOrNothing ==
    \A r \in Requests :
        (r.kind = "register" /\ Answered(r) /\ r.res.status # 201) => r.uid = 0

\* --------------------------------------------------------------- C18
\* a resend that arrives for an account the store holds unverified goes on to
\* save a token no account and no request holds, with an expiry in the future
C18_ResendIssues ==
    \A r \in BagToSet(reqs') :
        (/\ Arrive(r) /\ r.kind = "resend" /\ r.body.email # Absent
         /\ FindOneByEmail(users, r.body.email) # NoUser
         /\ ~FindOneByEmail(users, r.body.email).isEmailVerified) =>
            /\ r.pc = "save" /\ r.uid = FindOneByEmail(users, r.body.email).id
            /\ r.verificationToken # Null /\ r.verificationExpires > now
            /\ \A i \in DOMAIN users : users[i].emailVerificationToken # r.verificationToken
            /\ \A g \in Requests : g.verificationToken # r.verificationToken

\* its save stores that token and expiry and the resend is answered 200
C18_ResendStores ==
    \A r0 \in Requests, r \in BagToSet(reqs') :
        (r0.kind = "resend" /\ r0.pc = "save" /\ r # r0 /\ Resume(r0, r)) =>
            /\ r.res.status = 200
            /\ users'[r0.uid].emailVerificationToken = r0.verificationToken
            /\ users'[r0.uid].emailVerificationExpires = r0.verificationExpires

\* token t was issued for account i by a resend that was answered 200
C18_Issued(t, i) ==
    \E r \in Requests :
        /\ r.kind = "resend" /\ Answered(r) /\ r.res.status = 200
        /\ r.uid = i /\ r.verificationToken = t

\* no token issued so far has reached its expiry: each expires VerificationTTL
\* after a clock reading that was at least 0
C18_NoTokenExpiredYet == now < ExpiryFrom(0)

\* an accepted verifyEmail makes its account verified when it saves
C18_VerifySaveVerifies ==
    \A v0 \in Requests, v \in BagToSet(reqs') :
        (v0.kind = "verify" /\ v0.pc = "save" /\ v # v0 /\ Resume(v0, v)) =>
            /\ v.res.status = 200
            /\ users'[v0.uid].isEmailVerified

\* a login with the account's password on a verified account returns 200
C18_LoginSucceeds ==
    \A l \in BagToSet(reqs') :
        (/\ Arrive(l) /\ l.kind = "login"
         /\ l.body.email # Absent /\ l.body.password # Absent
         /\ FindOneByEmail(users, l.body.email) # NoUser
         /\ FindOneByEmail(users, l.body.email).isEmailVerified
         /\ BcryptCompare(l.body.password,
                          FindOneByEmail(users, l.body.email).password)) =>
            l.res.status = 200

\* C18 as stated: under policy A, from every state in which an account is not
\* verified, resendVerification succeeds and issues a fresh token, verifyEmail
\* with that token before its expiry is accepted and makes the account
\* verified, and login with the correct password then returns 200.
C18_ResendTokenAlwaysVerifies ==
    [][/\ C18_ResendIssues
       /\ C18_ResendStores
       /\ \A v \in BagToSet(reqs'), i \in DOMAIN users :
            (/\ Arrive(v) /\ v.kind = "verify"
             /\ ~users[i].isEmailVerified
             /\ C18_Issued(v.body.token, i)
             /\ C18_NoTokenExpiredYet) =>
                v.pc = "save" /\ v.uid = i
       /\ C18_VerifySaveVerifies
       /\ C18_LoginSucceeds]_vars

\* C18, amended: as above, where verifyEmail is given, before its expiry, the
\* token of the latest resendVerification saved on the account; the token of
\* an earlier resend is rejected once a later resend has replaced it.
C18_LatestResendTokenVerifies ==
    [][/\ C18_ResendIssues
       /\ C18_ResendStores
       /\ \A v \in BagToSet(reqs'), i \in DOMAIN users :
            (/\ Arrive(v) /\ v.kind = "verify"
             /\ ~users[i].isEmailVerified
             /\ C18_Issued(v.body.token, i)
             /\ users[i].emailVerificationToken = v.body.token
             /\ users[i].emailVerificationExpires > now) =>
                v.pc = "save" /\ v.uid = i
       /\ \A v \in BagToSet(reqs'), i \in DOMAIN users :
            (/\ Arrive(v) /\ v.kind = "verify"
             /\ ~users[i].isEmailVerified
             /\ C18_Issued(v.body.token, i)
             /\ users[i].emailVerificationToken # v.body.token) =>
                /\ Answered(v) /\ v.res = InvalidOrExpiredToken
                /\ \E r \in Requests :
                      /\ r.kind = "resend" /\ r.uid = i
                      /\ r.verificationToken = users[i].emailVerificationToken
       /\ C18_VerifySaveVerifies
       /\ C18_LoginSucceeds]_vars

\* the whole path: a resend answered 200, a verifyEmail with its token
\* answered 200, and a login on the now verified account answered 200
C18_Witness ==
    \E r, v, l \in Requests :
        /\ r.kind = "resend" /\ r.res.status = 200
        /\ v.kind = "verify" /\ v.res.status = 200
        /\ v.body.token = r.verificationToken /\ v.uid = r.uid
        /\ l.kind = "login" /\ l.res.status = 200 /\ l.uid = r.uid
        /\ users[r.uid].isEmailVerified

====
